---- MODULE Spec2Model ----
(***************************************************************************)
(* A model of node-api-client-base: the ApiClient (URL builder,            *)
(* authenticator, argument parser, request executor with its pagination    *)
(* loop, object resolver, form-data serializer) and the EntityCrudApi      *)
(* facade, as written in src/lib/EntityCrudApi.js.                         *)
(*                                                                         *)
(* JavaScript values are tagged records.  A plain object is an ordered     *)
(* list of properties (key, value), in insertion order, with distinct      *)
(* keys; a property whose value is undefined is not stored.               *)
(***************************************************************************)
EXTENDS Integers, Sequences, FiniteSets, TLC

VARIABLES
    client,        \* the ApiClient instance: the fields its constructor sets
    pc,            \* where the current call stands
    call,          \* the call being executed: operation, arguments, default method
    promises,      \* promise id -> its state (pending, fulfilled with v, rejected with v)
    firstFailure,  \* the reason of the first nested promise that rejected, or None
    inferred,      \* _parseArgs' locals {url, method, data, params} (line 224)
    config,        \* the request config _parseArgs resolved, as _request mutates it
    issued,        \* the configs handed to axios.request, in the order issued
    bodies,        \* the response bodies received, in the order received
    inflight,      \* number of transport requests issued and not yet answered
    authCalls,     \* the configs the auth callback was invoked with
    contReturns,   \* what the pagination continuation returned, per invocation
    pageConfig,    \* paginationRequest's parameter `config` (line 266)
    result         \* the settlement of the promise the call returned

vars == <<client, pc, call, promises, firstFailure, inferred, config, issued,
          bodies, inflight, authCalls, contReturns, pageConfig, result>>

(***************************************************************************)
(* JavaScript values                                                       *)
(***************************************************************************)
Undef == [t |-> "undef"]
Null == [t |-> "null"]
Str(s) == [t |-> "str", s |-> s]
Num(n) == [t |-> "num", n |-> n]
Bool(b) == [t |-> "bool", b |-> b]
Prop(k, v) == [k |-> k, v |-> v]
Obj(props) == [t |-> "obj", props |-> props]
Arr(items) == [t |-> "arr", items |-> items]
Prom(id) == [t |-> "promise", id |-> id]
Form(entries) == [t |-> "form", entries |-> entries]
Func(name, ownProps) == [t |-> "function", name |-> name, ownProps |-> ownProps]
EmptyObj == Obj(<<>>)
None == [t |-> "none"]

isNil(v) == v.t \in {"undef", "null"}
isPlainObject(v) == v.t = "obj"
isArray(v) == v.t = "arr"

Keys(o) == IF o.t = "obj" THEN {o.props[i].k : i \in 1..Len(o.props)} ELSE {}
KeySeq(o) == IF o.t = "obj" THEN [i \in 1..Len(o.props) |-> o.props[i].k] ELSE <<>>

\* _.has(object, key): an own property of a non-nil object
has(o, k) == k \in Keys(o)

\* _.get(object, key): undefined when the object is nil or lacks the key
get(o, k) ==
    IF has(o, k)
    THEN LET i == CHOOSE j \in 1..Len(o.props) : o.props[j].k = k IN o.props[i].v
    ELSE Undef

\* _.get(object, key, defaultValue): the default stands in for undefined only
getOr(o, k, d) == IF get(o, k) = Undef THEN d ELSE get(o, k)

\* _.set(object, key, value): an existing key keeps its place, a new one is added last
set(o, k, v) ==
    IF has(o, k)
    THEN Obj([i \in 1..Len(o.props) |->
                 IF o.props[i].k = k THEN Prop(k, v) ELSE o.props[i]])
    ELSE Obj(Append(o.props, Prop(k, v)))

\* _.set(object, [k1, k2], value): creates object[k1] when it is not an object
setIn(o, k1, k2, v) ==
    set(o, k1, set(IF isPlainObject(get(o, k1)) THEN get(o, k1) ELSE EmptyObj, k2, v))

RECURSIVE assignProps(_, _)
assignProps(o, props) ==
    IF props = <<>> THEN o
    ELSE assignProps(set(o, Head(props).k, Head(props).v), Tail(props))

\* _.assign(target, ...sources): later sources override; nil sources are skipped
RECURSIVE assign(_, _)
assign(o, sources) ==
    IF sources = <<>> THEN o
    ELSE assign(IF isPlainObject(Head(sources))
                THEN assignProps(o, Head(sources).props) ELSE o,
                Tail(sources))

\* _.defaults(object, source): fills only the keys that resolve to undefined
RECURSIVE defaultsProps(_, _)
defaultsProps(o, props) ==
    IF props = <<>> THEN o
    ELSE defaultsProps(IF get(o, Head(props).k) = Undef
                       THEN set(o, Head(props).k, Head(props).v) ELSE o,
                       Tail(props))

\* A faulty variant of the defaults step: _.assign in place of _.defaults, so the
\* positional values override what the config object sets
defaultsOverriding(o, source) == assignProps(o, source.props)

\* _.defaults(config, {url, method, data, params}), line 224
defaults(o, source) == defaultsProps(o, source.props)

\* _.isEmpty(value): nil, numbers and booleans are empty; a string or array is empty
\* when its length is 0; any other object, a function included, when it has no own
\* enumerable property
isEmpty(v) ==
    CASE v.t = "obj" -> v.props = <<>>
      [] v.t = "arr" -> v.items = <<>>
      [] v.t = "str" -> v.s = ""
      [] v.t = "function" -> v.ownProps = 0
      [] OTHER -> TRUE

\* String.prototype.toLowerCase / _.toLower, on the strings the model uses
toLowerCase(s) ==
    CASE s \in {"GET", "Get"} -> "get"
      [] s \in {"POST", "Post"} -> "post"
      [] s \in {"PUT", "Put"} -> "put"
      [] s \in {"PATCH", "Patch"} -> "patch"
      [] s \in {"DELETE", "Delete"} -> "delete"
      [] s = "HEAD" -> "head"
      [] s = "OPTIONS" -> "options"
      [] s \in {"Content-Type", "CONTENT-TYPE", "Content-type"} -> "content-type"
      [] s \in {"Multipart/Form-Data", "MULTIPART/FORM-DATA"} -> "multipart/form-data"
      [] s = "Authorization" -> "authorization"
      [] s = "X-Api-Key" -> "x-api-key"
      [] OTHER -> s

(***************************************************************************)
(* URLs.  A path is the list of its segments, the last one empty when the  *)
(* path ends in "/" ("/api/" is <<"api", "">>, "/api" is <<"api">>).  A    *)
(* URL slug is one segment (it holds no "/").                              *)
(***************************************************************************)
DefaultPort(protocol) ==
    CASE protocol = "https:" -> "443"
      [] protocol = "http:" -> "80"
      [] OTHER -> ""

\* The URL parser drops a port that is the scheme's default
NormalPort(protocol, port) == IF port = DefaultPort(protocol) THEN "" ELSE port

\* new URL(baseUrl): model the string by the parts the parser finds in it
ParseUrl(u) ==
    [protocol |-> u.protocol, hostname |-> u.hostname,
     port |-> NormalPort(u.protocol, u.port), pathname |-> u.pathname]

\* _.flattenDeep(arguments)
RECURSIVE flattenDeep(_)
flattenDeep(items) ==
    IF items = <<>> THEN <<>>
    ELSE (IF isArray(Head(items)) THEN flattenDeep(Head(items).items)
          ELSE <<Head(items)>>) \o flattenDeep(Tail(items))

\* What Array.prototype.join writes for one element: nothing for null and undefined
SegmentText(v) ==
    CASE v.t = "str" -> v.s
      [] v.t = "num" -> ToString(v.n)
      [] OTHER -> ""

\* './' + _.join(args, '/'), as path segments
RelativePath(args) ==
    <<".">> \o (IF args = <<>> THEN <<"">>
                ELSE [i \in 1..Len(args) |-> SegmentText(args[i])])

Front(s) == IF s = <<>> THEN <<>> ELSE SubSeq(s, 1, Len(s) - 1)

\* new URL(relativePath, baseUrl): the base path without its last segment, then
\* the relative segments, "." and ".." resolved
RECURSIVE ResolveSegments(_, _)
ResolveSegments(acc, rel) ==
    IF rel = <<>> THEN acc
    ELSE LET seg == Head(rel)
             last == Len(rel) = 1
         IN CASE seg = "." ->
                    ResolveSegments(IF last THEN Append(acc, "") ELSE acc, Tail(rel))
              [] seg = ".." ->
                    ResolveSegments(IF last THEN Append(Front(acc), "") ELSE Front(acc),
                                    Tail(rel))
              [] OTHER -> ResolveSegments(Append(acc, seg), Tail(rel))

ResolveRelative(basePath, rel) == ResolveSegments(Front(basePath), rel)

RECURSIVE JoinPath(_)
JoinPath(segs) ==
    IF segs = <<>> THEN ""
    ELSE "/" \o Head(segs) \o JoinPath(Tail(segs))

\* URL.prototype.toString
Href(protocol, hostname, port, path) ==
    protocol \o "//" \o hostname \o (IF port = "" THEN "" ELSE ":" \o port)
        \o (IF path = <<>> THEN "/" ELSE JoinPath(path))

\* ApiClient._buildUrl(...urlSlugs)
BuildUrl(c, urlSlugs) ==
    LET port == NormalPort(c.protocol, c.port)
        args == flattenDeep(urlSlugs)
        path == ResolveRelative(c.basePath, RelativePath(args))
    IN Str(Href(c.protocol, c.hostname, port, path))

(***************************************************************************)
(* The constructor and the authenticator                                   *)
(***************************************************************************)
\* ApiClient.constructor(params): params is a plain object
ApiClient(params) ==
    LET url == IF ~isNil(get(params, "baseUrl"))
               THEN ParseUrl(get(params, "baseUrl"))
               ELSE [protocol |-> getOr(params, "protocol", Str("https:")).s,
                     hostname |-> get(params, "hostname").s,
                     port |-> getOr(params, "port", Str("443")).s,
                     pathname |-> get(params, "basePath").segs]
        credentials ==
            IF has(params, "token")
            THEN Obj(<<Prop("token", get(params, "token"))>>)
            ELSE IF has(params, "username") /\ has(params, "password")
            THEN Obj(<<Prop("username", get(params, "username")),
                       Prop("password", get(params, "password"))>>)
            ELSE IF has(params, "authHeaders")
            THEN Obj(<<Prop("authHeaders", get(params, "authHeaders"))>>)
            ELSE getOr(params, "credentials", EmptyObj)
    IN [hostname |-> url.hostname, port |-> url.port, protocol |-> url.protocol,
        basePath |-> url.pathname,
        authCallback |-> IF has(params, "authCallback")
                         THEN get(params, "authCallback") ELSE Undef,
        credentials |-> credentials]

\* What the caller's auth callback does to the config it is given: it signs the
\* request with a header of its own
AuthCallbackEffect(cfg) == setIn(cfg, "headers", "X-Signature", Str("signed"))

\* _.each(authHeaders, (value, header) => _.set(config, ['headers', header], value))
RECURSIVE setHeaders(_, _)
setHeaders(cfg, props) ==
    IF props = <<>> THEN cfg
    ELSE setHeaders(setIn(cfg, "headers", Head(props).k, Head(props).v), Tail(props))

\* A faulty variant of the authenticator: every credential form that is present is
\* applied, not only the first in precedence
ApplyEveryCredential(credentials, cfg) ==
    LET withToken ==
            IF has(credentials, "token")
            THEN setIn(cfg, "headers", "Authorization",
                       Str("Bearer " \o get(credentials, "token").s))
            ELSE cfg
        withBasic ==
            IF has(credentials, "username") /\ has(credentials, "password")
            THEN set(withToken, "auth",
                     Obj(<<Prop("username", get(credentials, "username")),
                           Prop("password", get(credentials, "password"))>>))
            ELSE withToken
    IN IF has(credentials, "authHeaders")
       THEN setHeaders(withBasic, get(credentials, "authHeaders").props)
       ELSE withBasic

\* The internal credential logic of _authenticate, lines 144-156
ApplyCredentials(credentials, cfg) ==
    IF has(credentials, "token")
    THEN setIn(cfg, "headers", "Authorization",
               Str("Bearer " \o get(credentials, "token").s))
    ELSE IF has(credentials, "username") /\ has(credentials, "password")
    THEN set(cfg, "auth", Obj(<<Prop("username", get(credentials, "username")),
                               Prop("password", get(credentials, "password"))>>))
    ELSE IF has(credentials, "authHeaders")
    THEN setHeaders(cfg, get(credentials, "authHeaders").props)
    ELSE cfg

\* Whether _authenticate takes the callback branch, line 140
UsesAuthCallback(c) == ~isEmpty(c.authCallback)

\* ApiClient._authenticate(config): the config as mutated and returned; a nil
\* config is replaced by {} first (lines 136-138)
Authenticate(c, cfg) ==
    LET target == IF isNil(cfg) THEN EmptyObj ELSE cfg
    IN IF UsesAuthCallback(c) THEN AuthCallbackEffect(target)
       ELSE ApplyCredentials(c.credentials, target)

(***************************************************************************)
(* The object resolver and the form-data serializer                        *)
(***************************************************************************)
Pending == [st |-> "pending"]
Fulfilled(v) == [st |-> "fulfilled", v |-> v]
Rejected(v) == [st |-> "rejected", v |-> v]

\* The promises nested in the plain objects and arrays of a value
RECURSIVE PromiseIds(_)
PromiseIds(v) ==
    CASE v.t = "promise" -> {v.id}
      [] v.t = "obj" -> UNION {PromiseIds(v.props[i].v) : i \in 1..Len(v.props)}
      [] v.t = "arr" -> UNION {PromiseIds(v.items[i]) : i \in 1..Len(v.items)}
      [] OTHER -> {}

\* A faulty variant of the resolver: the isArray branch is missing, so an array is
\* passed through with the promises still in it
RECURSIVE ResolvedValueSkippingArrays(_, _)
ResolvedValueSkippingArrays(v, ps) ==
    CASE v.t = "obj" ->
            Obj([i \in 1..Len(v.props) |->
                    Prop(v.props[i].k, ResolvedValueSkippingArrays(v.props[i].v, ps))])
      [] v.t = "promise" -> ps[v.id].v
      [] OTHER -> v

\* What ApiClient._deepResolve(object) fulfils with once every nested promise has:
\* Promise.props keeps each key, Promise.map each index, and a promise gives way to
\* the value it fulfilled with (ps: promise id -> settlement)
RECURSIVE ResolvedValue(_, _)
ResolvedValue(v, ps) ==
    CASE v.t = "obj" ->
            Obj([i \in 1..Len(v.props) |->
                    Prop(v.props[i].k, ResolvedValue(v.props[i].v, ps))])
      [] v.t = "arr" ->
            Arr([i \in 1..Len(v.items) |-> ResolvedValue(v.items[i], ps)])
      [] v.t = "promise" -> ps[v.id].v
      [] OTHER -> v

\* A faulty variant of the resolver: a nested rejection is swallowed and the
\* rejected promise resolved to undefined
DeepResolveSwallowingRejections(v, ps, failure) ==
    IF \A p \in PromiseIds(v) : ps[p].st # "pending"
    THEN [st |-> "fulfilled",
          v |-> ResolvedValue(v, [p \in DOMAIN ps |->
                                    IF ps[p].st = "rejected"
                                    THEN [st |-> "fulfilled", v |-> Undef] ELSE ps[p]])]
    ELSE [st |-> "pending"]

\* The settlement of the promise ApiClient._deepResolve(object) returns: rejected
\* with the first nested rejection, fulfilled once every nested promise is
DeepResolve(v, ps, failure) ==
    IF failure # None /\ \E p \in PromiseIds(v) : ps[p].st = "rejected"
    THEN Rejected(failure)
    ELSE IF \A p \in PromiseIds(v) : ps[p].st = "fulfilled"
    THEN Fulfilled(ResolvedValue(v, ps))
    ELSE Pending

Entry(k, v) == [k |-> k, v |-> v]

\* lodash's isLength: a number that can be the length of an array
isLength(v) == v.t = "num" /\ v.n >= 0

\* What _.each(object, (value, property) => ...) visits on a plain object, in
\* order: its own properties, unless the object is array-like (it has a `length`
\* that is a valid array length), and then the indices 0 .. length - 1 with
\* whatever the object holds under them
each(object) ==
    IF isLength(get(object, "length"))
    THEN [i \in 1..get(object, "length").n |->
             Prop(ToString(i - 1), get(object, ToString(i - 1)))]
    ELSE object.props

\* ApiClient._serializeObjectToFormData(object, formData, path): the entries of
\* formData after the call, entries being those before it
RECURSIVE SerializeObjectToFormData(_, _, _)
RECURSIVE SerializeEach(_, _, _)
RECURSIVE SerializeProps(_, _, _)
SerializeObjectToFormData(object, entries, path) ==
    CASE object.t = "undef" -> entries
      [] object.t = "bool" ->
            Append(entries, Entry(path, Str(IF object.b THEN "true" ELSE "false")))
      [] object.t = "arr" ->
            IF object.items = <<>> THEN Append(entries, Entry(path \o "[]", Str("")))
            ELSE SerializeEach(object.items, entries, path \o "[]")
      [] object.t = "date" -> Append(entries, Entry(path, Str(object.iso)))
      [] object.t = "obj" -> SerializeProps(each(object), entries, path)
      [] OTHER -> Append(entries, Entry(path, object))

\* _.each(object, value => serialize(value, formData, key)) over an array, line 406
SerializeEach(items, entries, key) ==
    IF items = <<>> THEN entries
    ELSE SerializeEach(Tail(items),
                       SerializeObjectToFormData(Head(items), entries, key), key)

\* The callback of line 414 applied to each (property, value) that _.each visits
SerializeProps(props, entries, path) ==
    IF props = <<>> THEN entries
    ELSE LET property == Head(props).k
             key == IF path = "" THEN property
                    ELSE path \o "['" \o property \o "']"
         IN SerializeProps(Tail(props),
                           SerializeObjectToFormData(Head(props).v, entries, key), path)

(***************************************************************************)
(* The argument parser                                                     *)
(***************************************************************************)
IsConfigObjectArg(arg) == isPlainObject(arg) \/ isNil(arg)

\* _.size(_.takeRightWhile(args, isPlainObject or isNil)), lines 177-180
NumConfigObjectArgs(args) ==
    Cardinality({i \in 1..Len(args) :
                    \A j \in i..Len(args) : IsConfigObjectArg(args[j])})

ConfigObjectArgs(args) ==
    SubSeq(args, Len(args) - NumConfigObjectArgs(args) + 1, Len(args))

\* _.slice(args, 0, numArgs - numConfigObjectArgs), line 181
ResolveUrlArgs(args) == SubSeq(args, 1, Len(args) - NumConfigObjectArgs(args))

\* array[i] of a JavaScript array (0-based in the source, 1-based here)
ArgAt(a, i) == IF i <= Len(a) THEN a[i] ELSE Undef

\* A faulty variant of the parser: the case of one config-object argument is
\* missing, and the argument is not taken as the config
ChosenConfigWithoutSingleCase(rc) ==
    CASE Len(rc) = 2 -> IF ~isNil(rc[2]) THEN rc[2] ELSE EmptyObj
      [] OTHER -> assign(EmptyObj, SubSeq(rc, 3, Len(rc)))

\* The config object _parseArgs picks from the resolved config-object arguments
ChosenConfig(rc) ==
    CASE Len(rc) = 1 -> IF ~isNil(rc[1]) THEN rc[1] ELSE EmptyObj
      [] Len(rc) = 2 -> IF ~isNil(rc[2]) THEN rc[2] ELSE EmptyObj
      [] OTHER -> assign(EmptyObj, SubSeq(rc, 3, Len(rc)))

\* A faulty variant of the parser: the method is compared as written, without
\* toLowerCase()
RoutingMethodAsWritten(cfg, defaultMethod) == getOr(cfg, "method", Str(defaultMethod)).s

\* _.get(config, 'method', defaultMethod).toLowerCase(), line 199
RoutingMethod(cfg, defaultMethod) ==
    toLowerCase(getOr(cfg, "method", Str(defaultMethod)).s)

IsBodyMethod(method) == method \in {"put", "post", "patch"}

\* The local `data` of _parseArgs when _.defaults is reached
InferredData(rc, defaultMethod) ==
    CASE Len(rc) = 1 -> Null
      [] Len(rc) = 2 ->
            IF ~isNil(rc[1]) /\ IsBodyMethod(RoutingMethod(ChosenConfig(rc), defaultMethod))
            THEN rc[1] ELSE Null
      [] OTHER -> IF ~isNil(ArgAt(rc, 2)) THEN rc[2] ELSE Null

\* The local `params` of _parseArgs when _.defaults is reached
InferredParams(rc, defaultMethod) ==
    CASE Len(rc) = 1 -> Null
      [] Len(rc) = 2 ->
            IF ~isNil(rc[1]) /\ ~IsBodyMethod(RoutingMethod(ChosenConfig(rc), defaultMethod))
            THEN rc[1] ELSE Null
      [] OTHER -> IF ~isNil(ArgAt(rc, 1)) THEN rc[1] ELSE Null

\* The object {url, method, data, params} of line 224; `method` is the outer local,
\* which the inner `let method` of line 199 never changes
InferredArgs(c, urlArgs, rc, defaultMethod) ==
    Obj(<<Prop("url", BuildUrl(c, urlArgs)),
          Prop("method", Str(defaultMethod)),
          Prop("data", InferredData(rc, defaultMethod)),
          Prop("params", InferredParams(rc, defaultMethod))>>)

\* ApiClient._parseArgs(...args, defaultMethod), once _deepResolve has fulfilled
\* with the resolved config-object arguments rc
ParseArgs(c, args, defaultMethod, rc) ==
    defaults(ChosenConfig(rc), InferredArgs(c, ResolveUrlArgs(args), rc, defaultMethod))

(***************************************************************************)
(* The request executor                                                    *)
(***************************************************************************)
\* A faulty variant of the executor: the header is looked up under the exact key
\* 'content-type'
ContentTypeHeaderKeyExact(cfg) == "content-type"

\* _.find(_.keys(headers), key => _.toLower(key) === 'content-type'), line 242
ContentTypeHeaderKey(cfg) ==
    LET ks == KeySeq(get(cfg, "headers"))
        hits == {i \in 1..Len(ks) : toLowerCase(ks[i]) = "content-type"}
    IN IF hits = {} THEN "undefined"
       ELSE ks[CHOOSE i \in hits : \A j \in hits : i <= j]

\* The condition of line 245
IsMultipart(cfg) ==
    /\ get(get(cfg, "headers"), ContentTypeHeaderKey(cfg)) = Str("multipart/form-data")
    /\ ~isNil(get(cfg, "data"))

\* formData.getHeaders()
FormDataHeaders ==
    Obj(<<Prop("content-type", Str("multipart/form-data; boundary=----boundary"))>>)

\* Lines 242-253: the form-data step of _request
SerializeFormData(cfg) ==
    IF IsMultipart(cfg)
    THEN LET data == get(cfg, "data")
             cfg1 == IF data.t # "form"
                     THEN set(cfg, "data", Form(SerializeObjectToFormData(data, <<>>, "")))
                     ELSE cfg
         IN set(cfg1, "headers",
                assign(EmptyObj, <<getOr(cfg1, "headers", EmptyObj), FormDataHeaders>>))
    ELSE cfg

\* Lines 242-255: the config handed to axios.request for the first request
PrepareRequest(c, cfg) == Authenticate(c, SerializeFormData(cfg))

\* A faulty variant of the executor: the first request is sent twice at once,
\* without waiting for a response
InitialRequestsInParallel(c, cfg) == <<PrepareRequest(c, cfg), PrepareRequest(c, cfg)>>

\* The requests _request hands to the transport before any response: the one
\* axios.request(config) of line 257
InitialRequests(c, cfg) == <<PrepareRequest(c, cfg)>>

\* The caller's pagination continuation: a closure that returns the configs of its
\* script one per invocation, then undefined
ContinuationResult(fn, invocation) ==
    IF invocation <= Len(fn.script) THEN fn.script[invocation] ELSE Undef

(***************************************************************************)
(* The CRUD facade                                                         *)
(***************************************************************************)
\* EntityCrudApi._resolveUrlSlug(id)
ResolveUrlSlug(entityUrlBasePathname, id) ==
    IF isNil(id) THEN Arr(<<Str(entityUrlBasePathname), id>>)
    ELSE Arr(<<Str(entityUrlBasePathname)>>)

\* The verb wrapper each facade operation calls, and the slug it passes
FacadeMethod(op) ==
    CASE op = "list" -> "get"
      [] op = "create" -> "post"
      [] op = "read" -> "get"
      [] op = "update" -> "put"
      [] op = "delete" -> "delete"

\* list(params, config), create(data, config), read(id, params, config),
\* update(id, data, config), delete(id, params, config): the arguments of the
\* verb wrapper
FacadeArgs(op, entityUrlBasePathname, id, paramsOrData, cfg) ==
    <<ResolveUrlSlug(entityUrlBasePathname,
                     IF op \in {"list", "create"} THEN Undef ELSE id),
      paramsOrData, cfg>>

(***************************************************************************)
(* Bounds and the inputs drawn within them                                 *)
(***************************************************************************)
MaxPages == 2          \* longest script of a pagination continuation
NumBodies == 2         \* distinct response bodies the transport may answer with
MaxPromises == 3       \* promises nested in the arguments of one call
NumValues == 2         \* distinct values a promise may fulfil with
MaxConfigArgs == 4     \* most config-object arguments of one parsed call
MaxNesting == 2        \* containers around the innermost value of a serialized tree
MaxSegments == 2       \* most URL-slug arguments of one _buildUrl call

Seqs(S, n) == UNION {[1..k -> S] : k \in 0..n}

ResponseBodies == {Num(n) : n \in 1..NumBodies}
PromiseValues == {Str("v" \o ToString(n)) : n \in 1..NumValues}
Settlements(p) ==
    {Fulfilled(v) : v \in PromiseValues} \cup {Rejected(Str("error" \o ToString(p)))}

\* Constructor parameters: where the API lives, ...
BaseParams ==
    { <<Prop("baseUrl", [t |-> "urlstring", protocol |-> "https:", hostname |-> "host",
                         port |-> "443", pathname |-> <<"api", "">>])>>,
      <<Prop("hostname", Str("host")),
        Prop("basePath", [t |-> "pathstring", segs |-> <<"api", "">>])>> }

\* ... the credentials, ...
CredentialParams ==
    { <<>>,
      <<Prop("token", Str("t0"))>>,
      <<Prop("username", Str("u")), Prop("password", Str("pw"))>>,
      <<Prop("authHeaders", Obj(<<Prop("X-Api-Key", Str("k"))>>))>>,
      <<Prop("token", Str("t0")), Prop("username", Str("u")),
        Prop("password", Str("pw")),
        Prop("authHeaders", Obj(<<Prop("X-Api-Key", Str("k"))>>))>>,
      <<Prop("credentials", Obj(<<Prop("token", Str("t1"))>>))>> }

\* ... and the auth callback: none, a function, or a function object that carries
\* an own enumerable property
CallbackParams ==
    { <<>>,
      <<Prop("authCallback", Func("sign", 0))>>,
      <<Prop("authCallback", Func("sign", 1))>> }

ClientParams ==
    {Obj(b \o c \o a) : b \in BaseParams, c \in CredentialParams, a \in CallbackParams}

\* A pagination continuation with the given script
Continuation(script) ==
    [t |-> "function", name |-> "paginate", ownProps |-> 0, script |-> script]

NextConfigs ==
    {Obj(<<Prop("url", Str("https://host/api/items?page=" \o ToString(n)))>>) :
        n \in 2..3}

VerbCall(method, args) == [via |-> method, defaultMethod |-> method, args |-> args]

\* Paginated and plain GETs
PaginationCalls ==
    {VerbCall("get", <<Str("items"), Undef,
                       Obj(<<Prop("paginationCallback", Continuation(script))>>)>>) :
        script \in Seqs(NextConfigs, MaxPages)}
    \cup {VerbCall("get", <<Str("items")>>)}

\* Calls whose config-object arguments hold promises
PromiseCalls ==
    { VerbCall("get", <<Str("items"), Obj(<<Prop("q", Prom(1))>>)>>),
      VerbCall("get", <<Str("items"), Obj(<<Prop("q", Prom(1))>>),
                        Obj(<<Prop("headers", Obj(<<Prop("X-Trace", Prom(2))>>))>>)>>),
      VerbCall("post", <<Str("items"),
                         Obj(<<Prop("tags", Arr(<<Prom(1), Str("x"), Prom(2)>>))>>),
                         Obj(<<Prop("timeout", Prom(3))>>)>>) }

HeaderChoices ==
    { Undef,
      Obj(<<Prop("content-type", Str("multipart/form-data"))>>),
      Obj(<<Prop("Content-Type", Str("multipart/form-data"))>>),
      Obj(<<Prop("Content-Type", Str("Multipart/Form-Data"))>>),
      Obj(<<Prop("content-type", Str("application/json"))>>),
      Obj(<<Prop("Content-Type", Str("application/json")),
            Prop("content-type", Str("multipart/form-data"))>>) }

DataChoices ==
    { Undef, Null,
      Obj(<<Prop("a", Arr(<<Num(1), Num(2)>>)), Prop("b", Obj(<<Prop("c", Bool(TRUE))>>))>>),
      Form(<<Entry("file", Str("blob"))>>) }

\* client._request({url?, data?, headers?}, 'post'): one config object; a FormData
\* payload is no plain object, so it can only travel inside the config
UploadCalls ==
    {VerbCall("post",
              <<Str("upload"),
                Obj((IF d = Undef THEN <<>> ELSE <<Prop("data", d)>>)
                    \o (IF h = Undef THEN <<>> ELSE <<Prop("headers", h)>>))>>) :
        d \in DataChoices, h \in HeaderChoices}

FacadeCall(op, id, paramsOrData) ==
    [via |-> op, defaultMethod |-> FacadeMethod(op), id |-> id,
     args |-> FacadeArgs(op, "widgets", id, paramsOrData, Undef)]

FacadeCalls ==
    {FacadeCall(op, Undef, pd) :
        op \in {"list", "create"}, pd \in {Undef, Obj(<<Prop("name", Str("n"))>>)}}
    \cup {FacadeCall(op, id, pd) :
            op \in {"read", "update", "delete"},
            id \in {Undef, Num(7), Str("42")},
            pd \in {Undef, Obj(<<Prop("name", Str("n"))>>)}}

Calls == PaginationCalls \cup PromiseCalls \cup UploadCalls \cup FacadeCalls

(***************************************************************************)
(* One call through the request executor                                   *)
(***************************************************************************)
NoCall == [via |-> "none", defaultMethod |-> "", args |-> <<>>]

\* What _deepResolve is applied to: the config-object arguments of a request
\* (line 183), or the value itself when the resolver is called directly
ResolverInput(c) ==
    IF c.via = "deepResolve" THEN c.args[1] ELSE Arr(ConfigObjectArgs(c.args))

Init ==
    /\ client \in {ApiClient(params) : params \in ClientParams}
    /\ pc = "idle"
    /\ call = NoCall
    /\ promises = [p \in 1..MaxPromises |-> Pending]
    /\ firstFailure = None
    /\ inferred = Undef
    /\ config = Undef
    /\ issued = <<>>
    /\ bodies = <<>>
    /\ inflight = 0
    /\ authCalls = <<>>
    /\ contReturns = <<>>
    /\ pageConfig = Undef
    /\ result = Pending

\* A verb wrapper or a facade operation is called: _request runs up to
\* _deepResolve(configObjectArgs), lines 238-240 and 170-183
Invoke(c) ==
    /\ pc = "idle"
    /\ call' = c
    /\ pc' = "resolving"
    /\ UNCHANGED <<client, promises, firstFailure, inferred, config, issued, bodies,
                   inflight, authCalls, contReturns, pageConfig, result>>

\* A promise nested in the arguments settles; a rejection rejects the promise of
\* _deepResolve, and through the then-chains of lines 183 and 240 the call
Settle(p, outcome) ==
    /\ pc # "idle"
    /\ p \in PromiseIds(ResolverInput(call))
    /\ promises[p] = Pending
    /\ promises' = [promises EXCEPT ![p] = outcome]
    /\ firstFailure' = IF outcome.st = "rejected" /\ firstFailure = None
                       THEN outcome.v ELSE firstFailure
    /\ LET r == DeepResolve(ResolverInput(call), promises', firstFailure')
       IN IF pc = "resolving" /\ r.st = "rejected"
          THEN pc' = "failed" /\ result' = r
          ELSE UNCHANGED <<pc, result>>
    /\ UNCHANGED <<client, call, inferred, config, issued, bodies, inflight,
                   authCalls, contReturns, pageConfig>>

\* _deepResolve has fulfilled: the then-callbacks of lines 184-226 and 241-257 run,
\* up to the first axios.request(config)
Dispatch ==
    /\ pc = "resolving"
    /\ call.via # "deepResolve"
    /\ LET r == DeepResolve(ResolverInput(call), promises, firstFailure)
       IN /\ r.st = "fulfilled"
          /\ LET rc == r.v.items
                 cfg == ParseArgs(client, call.args, call.defaultMethod, rc)
             IN /\ inferred' = InferredArgs(client, ResolveUrlArgs(call.args), rc,
                                            call.defaultMethod)
                /\ config' = cfg
                /\ authCalls' = IF UsesAuthCallback(client)
                                THEN <<SerializeFormData(cfg)>> ELSE <<>>
                /\ issued' = InitialRequests(client, cfg)
    /\ inflight' = Len(issued')
    /\ pc' = "awaiting"
    /\ UNCHANGED <<client, call, promises, firstFailure, bodies, contReturns,
                   pageConfig, result>>

\* A faulty variant of the executor: the result array starts empty, without the
\* first response body
ResponseDataArrayWithoutFirst(answers) ==
    Arr([i \in 1..(Len(answers) - 1) |-> answers[i + 1].body])

Answer(req, body) == [req |-> req, body |-> body]
ResponseDataArray(answers) == Arr([i \in 1..Len(answers) |-> answers[i].body])

\* The config paginationRequest issues after a continuation returned nextConfig,
\* line 273: `return paginationRequest(config)`
FollowUpConfig(current, nextConfig) == current

\* What _request resolves with after the first response when no continuation is
\* configured, line 287
PlainResult(responseData) == responseData

\* The first response arrives: lines 258-288
FirstResponse(body) ==
    /\ pc = "awaiting"
    /\ inflight > 0
    /\ bodies' = <<Answer(Len(issued), body)>>
    /\ LET paginationCallback == get(issued[1], "paginationCallback")
           nextConfig == ContinuationResult(paginationCallback, 1)
       IN IF ~isNil(paginationCallback)
          THEN /\ contReturns' = <<nextConfig>>
               /\ IF isNil(nextConfig)
                  THEN /\ result' = Fulfilled(ResponseDataArray(bodies'))
                       /\ pc' = "done"
                       /\ inflight' = inflight - 1
                       /\ UNCHANGED <<issued, pageConfig>>
                  ELSE /\ issued' = Append(issued, nextConfig)
                       /\ pageConfig' = nextConfig
                       /\ inflight' = inflight - 1 + 1
                       /\ pc' = "paging"
                       /\ UNCHANGED result
          ELSE /\ result' = Fulfilled(PlainResult(body))
               /\ pc' = "done"
               /\ inflight' = inflight - 1
               /\ UNCHANGED <<issued, pageConfig, contReturns>>
    /\ UNCHANGED <<client, call, promises, firstFailure, inferred, config, authCalls>>

\* The response of a follow-up request arrives: lines 268-275, then 281-283
PageResponse(body) ==
    /\ pc = "paging"
    /\ inflight > 0
    /\ bodies' = Append(bodies, Answer(Len(issued), body))
    /\ LET paginationCallback == get(issued[1], "paginationCallback")
           nextConfig == ContinuationResult(paginationCallback, Len(contReturns) + 1)
       IN /\ contReturns' = Append(contReturns, nextConfig)
          /\ IF ~isNil(nextConfig)
             THEN /\ issued' = Append(issued, FollowUpConfig(pageConfig, nextConfig))
                  /\ pageConfig' = FollowUpConfig(pageConfig, nextConfig)
                  /\ inflight' = inflight - 1 + 1
                  /\ UNCHANGED <<pc, result>>
             ELSE /\ result' = Fulfilled(ResponseDataArray(bodies'))
                  /\ pc' = "done"
                  /\ inflight' = inflight - 1
                  /\ UNCHANGED <<issued, pageConfig>>
    /\ UNCHANGED <<client, call, promises, firstFailure, inferred, config, authCalls>>

\* The transport fails a request: the failure propagates unchanged
TransportError ==
    /\ pc \in {"awaiting", "paging"}
    /\ inflight > 0
    /\ inflight' = inflight - 1
    /\ pc' = "failed"
    /\ result' = Rejected(Str("ETRANSPORT"))
    /\ UNCHANGED <<client, call, promises, firstFailure, inferred, config, issued,
                   bodies, authCalls, contReturns, pageConfig>>

Next ==
    \/ \E c \in Calls : Invoke(c)
    \/ \E p \in 1..MaxPromises : \E o \in Settlements(p) : Settle(p, o)
    \/ Dispatch
    \/ \E b \in ResponseBodies : FirstResponse(b)
    \/ \E b \in ResponseBodies : PageResponse(b)
    \/ TransportError

Spec == Init /\ [][Next]_vars

(***************************************************************************)
(* Properties of the request executor, checked under Spec                  *)
(***************************************************************************)
Dispatched == Len(issued) >= 1
Paginated == Dispatched /\ ~isNil(get(config, "paginationCallback"))

\* C1: in the pagination loop every request after the first is issued with the
\* config the continuation returned on its most recent invocation: the k-th
\* follow-up request uses the k-th next-config returned.
C1_FollowUpUsesLatestNextConfig ==
    \A k \in 1..(Len(issued) - 1) :
        /\ k <= Len(contReturns)
        /\ issued[k + 1] = contReturns[k]

\* C2: when an auth callback was supplied at construction, _authenticate invokes
\* it with the config and applies none of the internal credential logic: no
\* Authorization header, no auth field and no custom header is set from the
\* configured token, username/password or authHeaders.
C2_AuthCallbackReplacesCredentials ==
    (Dispatched /\ client.authCallback.t = "function") =>
        /\ Len(authCalls) = 1
        /\ get(get(issued[1], "headers"), "Authorization")
              = get(get(config, "headers"), "Authorization")
        /\ get(issued[1], "auth") = get(config, "auth")
        /\ get(get(issued[1], "headers"), "X-Api-Key")
              = get(get(config, "headers"), "X-Api-Key")

FacadeVerb(op) ==
    CASE op = "read" -> "get"
      [] op = "update" -> "put"
      [] op = "delete" -> "delete"
      [] op = "list" -> "get"
      [] op = "create" -> "post"

IdText(id) == IF id = Num(7) THEN "7" ELSE "42"

\* C3: for every non-absent id, read(id), update(id) and delete(id) issue a GET,
\* PUT and DELETE whose URL path is the resource base path followed by the id as
\* the final segment; list() and create() target the resource base path without
\* an id.
C3_FacadeAddressesEntityById ==
    Dispatched =>
        /\ (call.via \in {"read", "update", "delete"} /\ ~isNil(call.id)) =>
              /\ get(issued[1], "method") = Str(FacadeVerb(call.via))
              /\ get(issued[1], "url")
                    = Str("https://host/api/widgets/" \o IdText(call.id))
        /\ call.via \in {"list", "create"} =>
              /\ get(issued[1], "method") = Str(FacadeVerb(call.via))
              /\ get(issued[1], "url").s
                    \in {"https://host/api/widgets", "https://host/api/widgets/"}

\* The body the transport answered the i-th request with
BodyOf(i) == {a.body : a \in {bodies[j] : j \in {j \in 1..Len(bodies) : bodies[j].req = i}}}

\* C4: for a continuation that returns a next config n times and then absent, the
\* executor issues exactly n+1 requests and returns a sequence of exactly n+1
\* response bodies, the i-th being the body of the i-th request issued; without a
\* continuation it returns the single response body unwrapped.
C4_PaginationReturnsEveryBodyInOrder ==
    pc = "done" =>
        IF Paginated
        THEN LET n == Len(get(config, "paginationCallback").script)
             IN /\ Len(issued) = n + 1
                /\ result.st = "fulfilled"
                /\ result.v.t = "arr"
                /\ Len(result.v.items) = n + 1
                /\ \A i \in 1..(n + 1) : BodyOf(i) = {result.v.items[i]}
        ELSE /\ Len(issued) = 1
             /\ result.st = "fulfilled"
             /\ BodyOf(1) = {result.v}

C4_Witness ==
    /\ pc = "done"
    /\ Paginated
    /\ Len(get(config, "paginationCallback").script) = 2
    /\ Len(result.v.items) = 3
    /\ result.v.items[1] # result.v.items[2]

RejectedPromises ==
    {p \in PromiseIds(ResolverInput(call)) : promises[p].st = "rejected"}

\* C8: if a promised value nested in a call's config-object arguments rejects, the
\* call fails with that same failure and the transport is never invoked for the
\* call: no request is issued before or after the rejection.
C8_RejectedArgumentFailsBeforeAnyRequest ==
    (call.via # "deepResolve" /\ RejectedPromises # {}) =>
        /\ issued = <<>>
        /\ inflight = 0
        /\ pc = "failed"
        /\ result.st = "rejected"
        /\ \E p \in RejectedPromises : promises[p] = Rejected(result.v)
        /\ result.v = firstFailure

C8_Witness ==
    /\ call.via = "post"
    /\ pc = "failed"
    /\ promises[1].st = "fulfilled"
    /\ promises[2].st = "rejected"
    /\ promises[3].st = "rejected"
    /\ result = Rejected(Str("error3"))
    /\ issued = <<>>

ContentTypeNames == {"content-type", "Content-Type", "CONTENT-TYPE", "Content-type"}
MultipartSpellings == {"multipart/form-data", "Multipart/Form-Data", "MULTIPART/FORM-DATA"}
HeaderProps(cfg) ==
    LET h == get(cfg, "headers") IN IF isPlainObject(h) THEN h.props ELSE <<>>

\* Some content-type header equals multipart/form-data, letter case ignored
HasMultipartHeader(cfg) ==
    \E i \in 1..Len(HeaderProps(cfg)) :
        /\ HeaderProps(cfg)[i].k \in ContentTypeNames
        /\ HeaderProps(cfg)[i].v.t = "str"
        /\ HeaderProps(cfg)[i].v.s \in MultipartSpellings

\* The first header named content-type (letter case of the name ignored) has
\* exactly the value multipart/form-data
FirstContentTypeIsMultipart(cfg) ==
    \E i \in 1..Len(HeaderProps(cfg)) :
        /\ HeaderProps(cfg)[i].k \in ContentTypeNames
        /\ \A j \in 1..(i - 1) : HeaderProps(cfg)[j].k \notin ContentTypeNames
        /\ HeaderProps(cfg)[i].v = Str("multipart/form-data")

DataPresent(cfg) == get(cfg, "data").t \notin {"undef", "null"}
DataReplacedByFormData ==
    /\ get(issued[1], "data") # get(config, "data")
    /\ get(issued[1], "data").t = "form"

\* C10 as stated: the executor replaces the body data with a serialized form-data
\* payload if and only if the config has a content-type header that, compared
\* case-insensitively, equals multipart/form-data, body data is present and the
\* data is not already a form-data payload; otherwise the data reaches the
\* transport unchanged.
C10_SerializesIffMultipartIgnoringCase ==
    Dispatched =>
        /\ DataReplacedByFormData <=>
              (HasMultipartHeader(config) /\ DataPresent(config)
                  /\ get(config, "data").t # "form")
        /\ ~DataReplacedByFormData => get(issued[1], "data") = get(config, "data")

\* C10 amended: the executor replaces the body data with a serialized form-data
\* payload if and only if the first header whose name, compared
\* case-insensitively, is content-type has exactly the value multipart/form-data
\* (the value is compared case-sensitively), body data is present and the data is
\* not already a form-data payload; otherwise the data reaches the transport
\* unchanged.
C10_SerializesIffFirstContentTypeIsMultipart ==
    Dispatched =>
        /\ DataReplacedByFormData <=>
              (FirstContentTypeIsMultipart(config) /\ DataPresent(config)
                  /\ get(config, "data").t # "form")
        /\ ~DataReplacedByFormData => get(issued[1], "data") = get(config, "data")

C10_Witness ==
    /\ Dispatched
    /\ has(get(config, "headers"), "Content-Type")
    /\ get(config, "data").t = "obj"
    /\ get(issued[1], "data").t = "form"
    /\ Len(get(issued[1], "data").entries) = 3

Answered(i) == \E j \in 1..Len(bodies) : bodies[j].req = i

\* C13: during a paginated call at most one transport request of the call is in
\* flight at any time: the request for page N+1 is issued only after the response
\* for page N has been received and the continuation has been invoked on it.
C13_OneRequestInFlightWhilePaging ==
    Paginated =>
        /\ inflight <= 1
        /\ Len(issued) <= Len(bodies) + 1
        /\ \A k \in 2..Len(issued) :
              /\ Answered(k - 1)
              /\ Len(contReturns) >= k - 1
              /\ ~isNil(contReturns[k - 1])

C13_Witness ==
    /\ Paginated
    /\ pc = "paging"
    /\ Len(issued) = 3
    /\ Len(bodies) = 2
    /\ Len(contReturns) = 2
    /\ inflight = 1

(***************************************************************************)
(* The argument parser on its own: SpecParse draws a call and parses it    *)
(***************************************************************************)
Verbs == {"get", "head", "delete", "options", "put", "post", "patch"}

\* What a caller passes after the URL slug: nothing, null, a params or data
\* object, or a config object setting some of method, data, params, url
ParseObjects ==
    { Undef, Null,
      Obj(<<Prop("q", Num(1))>>),
      Obj(<<Prop("method", Str("POST"))>>),
      Obj(<<Prop("method", Str("delete")), Prop("data", Obj(<<Prop("d", Num(1))>>))>>),
      Obj(<<Prop("url", Str("https://other/x")), Prop("params", Null),
            Prop("timeout", Num(5))>>) }

ParseCalls ==
    {VerbCall(m, <<Str("items")>> \o objs) :
        m \in Verbs, objs \in Seqs(ParseObjects, MaxConfigArgs)}

TheClient == ApiClient(Obj(<<Prop("hostname", Str("host")),
                            Prop("basePath", [t |-> "pathstring", segs |-> <<"api", "">>]),
                            Prop("token", Str("t0"))>>))

InitParse ==
    /\ client = TheClient
    /\ pc = "resolving"
    /\ call \in ParseCalls
    /\ promises = [p \in 1..MaxPromises |-> Pending]
    /\ firstFailure = None
    /\ inferred = Undef
    /\ config = Undef
    /\ issued = <<>>
    /\ bodies = <<>>
    /\ inflight = 0
    /\ authCalls = <<>>
    /\ contReturns = <<>>
    /\ pageConfig = Undef
    /\ result = Pending

\* _parseArgs(...args, defaultMethod) runs to its end: lines 170-226
Parse ==
    /\ pc = "resolving"
    /\ LET r == DeepResolve(ResolverInput(call), promises, firstFailure)
       IN /\ r.st = "fulfilled"
          /\ config' = ParseArgs(client, call.args, call.defaultMethod, r.v.items)
          /\ inferred' = InferredArgs(client, ResolveUrlArgs(call.args), r.v.items,
                                      call.defaultMethod)
          /\ result' = Fulfilled(config')
    /\ pc' = "parsed"
    /\ UNCHANGED <<client, call, promises, firstFailure, issued, bodies, inflight,
                   authCalls, contReturns, pageConfig>>

NextParse == Parse

SpecParse == InitParse /\ [][NextParse]_vars

\* The arguments after the URL slug: in ParseCalls each is a plain object or nil
TrailingObjects == Tail(call.args)
BodyMethodSpellings ==
    {"put", "PUT", "Put", "post", "POST", "Post", "patch", "PATCH", "Patch"}
DescriptorKeys == {"url", "method", "data", "params"}
NullIfNil(v) == IF v.t \in {"undef", "null"} THEN Null ELSE v

\* C5: with exactly 2 config-object arguments the method is taken from the second
\* argument's 'method' key, lower-cased, falling back to the wrapper's default; a
\* non-absent first argument is routed to 'data' if that method is put, post or
\* patch and to 'params' for every other method, never to both.
C5_TwoArgumentsRouteByMethod ==
    (pc = "parsed" /\ Len(TrailingObjects) = 2) =>
        LET first == TrailingObjects[1]
            second == TrailingObjects[2]
            method == IF has(second, "method") THEN get(second, "method").s
                      ELSE call.defaultMethod
            toData == first.t = "obj" /\ method \in BodyMethodSpellings
            toParams == first.t = "obj" /\ method \notin BodyMethodSpellings
        IN /\ get(inferred, "data") = IF toData THEN first ELSE Null
           /\ get(inferred, "params") = IF toParams THEN first ELSE Null
           /\ ~has(second, "data") => get(config, "data") = get(inferred, "data")
           /\ ~has(second, "params") => get(config, "params") = get(inferred, "params")
           /\ first.t = "obj" =>
                  ~(get(config, "data") = first /\ get(config, "params") = first)

C5_Witness ==
    /\ pc = "parsed"
    /\ call.defaultMethod = "get"
    /\ Len(TrailingObjects) = 2
    /\ TrailingObjects[1] = Obj(<<Prop("q", Num(1))>>)
    /\ get(TrailingObjects[2], "method") = Str("POST")
    /\ get(config, "data") = TrailingObjects[1]
    /\ get(config, "params") = Null

\* C6: with exactly 1 config-object argument that object is the complete request
\* config: every key it carries is kept unchanged, it is never routed to 'params'
\* or 'data', and url, method, data, params are added only for keys it does not
\* set.
C6_SingleArgumentIsTheConfig ==
    (pc = "parsed" /\ Len(TrailingObjects) = 1) =>
        LET only == TrailingObjects[1]
        IN /\ \A k \in Keys(only) : get(config, k) = get(only, k)
           /\ Keys(config) = Keys(only) \cup DescriptorKeys
           /\ only.t = "obj" => (get(config, "data") # only /\ get(config, "params") # only)
           /\ ~has(only, "url") => get(config, "url") = Str("https://host/api/items")
           /\ ~has(only, "method") => get(config, "method") = Str(call.defaultMethod)
           /\ ~has(only, "data") => get(config, "data") = Null
           /\ ~has(only, "params") => get(config, "params") = Null

C6_Witness ==
    /\ pc = "parsed"
    /\ call.defaultMethod = "get"
    /\ TrailingObjects = <<Obj(<<Prop("method", Str("delete")),
                                 Prop("data", Obj(<<Prop("d", Num(1))>>))>>)>>
    /\ get(config, "method") = Str("delete")
    /\ get(config, "params") = Null
    /\ get(config, "url") = Str("https://host/api/items")

\* What the config object of the call sets for key k: the only argument, the
\* second of two, or the last of the third and later arguments that has the key
RECURSIVE LastSetting(_, _)
LastSetting(objs, k) ==
    IF objs = <<>> THEN Undef
    ELSE IF has(objs[Len(objs)], k) THEN get(objs[Len(objs)], k)
    ELSE LastSetting(Front(objs), k)

ExplicitSetting(k) ==
    CASE Len(TrailingObjects) = 0 -> Undef
      [] Len(TrailingObjects) = 1 -> get(TrailingObjects[1], k)
      [] Len(TrailingObjects) = 2 -> get(TrailingObjects[2], k)
      [] OTHER -> LastSetting(SubSeq(TrailingObjects, 3, Len(TrailingObjects)), k)

\* The value the argument positions give: first = params and second = data with 3
\* or more arguments, none with fewer than 2 (C5 states the case of 2)
PositionalValue(k) ==
    CASE k = "url" -> Str("https://host/api/items")
      [] k = "method" -> Str(call.defaultMethod)
      [] Len(TrailingObjects) = 2 -> get(inferred, k)
      [] Len(TrailingObjects) < 2 -> Null
      [] k = "params" -> NullIfNil(TrailingObjects[1])
      [] k = "data" -> NullIfNil(TrailingObjects[2])

\* C7: for every call shape (0, 1, 2, 3 or more config-object arguments) any of
\* url, method, data, params that the config object sets appears unchanged in the
\* resolved request descriptor, and the value inferred from the argument positions
\* is used only for keys the config object leaves unset.
C7_ExplicitConfigKeysTakePrecedence ==
    pc = "parsed" =>
        \A k \in DescriptorKeys :
            get(config, k) = IF ExplicitSetting(k) # Undef THEN ExplicitSetting(k)
                             ELSE PositionalValue(k)

C7_Witness ==
    /\ pc = "parsed"
    /\ call.defaultMethod = "put"
    /\ Len(TrailingObjects) = 4
    /\ TrailingObjects[1] = Obj(<<Prop("q", Num(1))>>)
    /\ TrailingObjects[2] = Obj(<<Prop("q", Num(1))>>)
    /\ get(TrailingObjects[3], "method") = Str("POST")
    /\ get(TrailingObjects[4], "method") = Str("delete")
    /\ get(config, "method") = Str("delete")
    /\ get(config, "data") = Obj(<<Prop("d", Num(1))>>)
    /\ get(config, "params") = TrailingObjects[1]

(***************************************************************************)
(* The object resolver on its own: SpecResolve draws a tree of plain       *)
(* objects and arrays with promises in it, lets the promises settle in any *)
(* order and delivers what _deepResolve settles with.  A promise fulfils   *)
(* with a primitive value.                                                 *)
(***************************************************************************)
PromiseArrays == {Arr([i \in 1..n |-> Prom(i)]) : n \in 1..MaxPromises}

Trees ==
    { Str("plain"),
      EmptyObj,
      Arr(<<>>),
      Prom(1),
      Obj(<<Prop("a", Prom(1)), Prop("b", Str("x"))>>),
      Arr(<<Prom(2), Str("k"), Prom(1)>>),
      Obj(<<Prop("z", Arr(<<Prom(1), Obj(<<Prop("b", Prom(2))>>)>>)),
            Prop("a", Prom(3))>>),
      Arr(<<Arr(<<Prom(2)>>), Obj(<<Prop("y", Num(1)), Prop("x", Prom(1))>>), Null>>) }
    \cup PromiseArrays

InitResolve ==
    /\ client = TheClient
    /\ pc = "resolving"
    /\ call \in {[via |-> "deepResolve", defaultMethod |-> "", args |-> <<tree>>] :
                    tree \in Trees}
    /\ promises = [p \in 1..MaxPromises |-> Pending]
    /\ firstFailure = None
    /\ inferred = Undef
    /\ config = Undef
    /\ issued = <<>>
    /\ bodies = <<>>
    /\ inflight = 0
    /\ authCalls = <<>>
    /\ contReturns = <<>>
    /\ pageConfig = Undef
    /\ result = Pending

\* Every nested promise has fulfilled: the promise of _deepResolve fulfils
ResolverFulfils ==
    /\ pc = "resolving"
    /\ call.via = "deepResolve"
    /\ LET r == DeepResolve(ResolverInput(call), promises, firstFailure)
       IN /\ r.st = "fulfilled"
          /\ result' = r
    /\ pc' = "resolved"
    /\ UNCHANGED <<client, call, promises, firstFailure, inferred, config, issued,
                   bodies, inflight, authCalls, contReturns, pageConfig>>

NextResolve ==
    \/ \E p \in 1..MaxPromises : \E o \in Settlements(p) : Settle(p, o)
    \/ ResolverFulfils

SpecResolve == InitResolve /\ [][NextResolve]_vars

\* out is input with the same keys in the same order, the same array indices, and
\* each promise replaced by the value it fulfilled with
RECURSIVE SameShapeResolved(_, _)
SameShapeResolved(input, out) ==
    CASE input.t = "obj" ->
            /\ out.t = "obj"
            /\ Len(out.props) = Len(input.props)
            /\ \A i \in 1..Len(input.props) :
                  /\ out.props[i].k = input.props[i].k
                  /\ SameShapeResolved(input.props[i].v, out.props[i].v)
      [] input.t = "arr" ->
            /\ out.t = "arr"
            /\ Len(out.items) = Len(input.items)
            /\ \A i \in 1..Len(input.items) :
                  SameShapeResolved(input.items[i], out.items[i])
      [] input.t = "promise" -> promises[input.id] = Fulfilled(out)
      [] OTHER -> out = input

\* C9: for every tree of plain objects and arrays containing promised values, and
\* every order in which the promises settle, the resolver's result has the same
\* keys and the same array index order as the input, each promise replaced by its
\* resolved value; if any one nested promise rejects, the result rejects.
C9_ResolverKeepsShapeAndRejectsOnRejection ==
    /\ pc = "resolved" =>
          /\ result.st = "fulfilled"
          /\ SameShapeResolved(call.args[1], result.v)
    /\ (\E p \in PromiseIds(call.args[1]) : promises[p].st = "rejected") =>
          /\ pc = "failed"
          /\ result.st = "rejected"
          /\ \E p \in PromiseIds(call.args[1]) : promises[p] = Rejected(result.v)
    /\ result.st = "fulfilled" => pc = "resolved"

C9_Witness ==
    /\ pc = "resolved"
    /\ call.args[1] = Arr(<<Prom(2), Str("k"), Prom(1)>>)
    /\ promises[1] = Fulfilled(Str("v1"))
    /\ promises[2] = Fulfilled(Str("v2"))
    /\ result = Fulfilled(Arr(<<Str("v2"), Str("k"), Str("v1")>>))

(***************************************************************************)
(* The form-data serializer on its own: SpecSerialize draws a tree of      *)
(* plain objects, arrays, booleans, strings, numbers and undefined, and    *)
(* serializes it into a fresh FormData.                                    *)
(***************************************************************************)
Leaves == {Str("s"), Num(1), Num(2), Bool(TRUE), Bool(FALSE), Undef}
Innermost == Leaves \cup {Arr(<<>>), EmptyObj}

\* The containers a tree t can sit in: as an array element, alone or with a
\* sibling before or after it, and as an object property, alone or with a
\* sibling (a property never holds undefined)
Wrappings(t) ==
    {Arr(<<t>>), Arr(<<Num(1), t>>), Arr(<<t, Str("s")>>)}
    \cup (IF t = Undef THEN {}
          ELSE {Obj(<<Prop(k, t)>>) : k \in {"a", "", "length"}}
               \cup {Obj(<<Prop("a", t), Prop("b", Bool(TRUE))>>),
                     Obj(<<Prop("z", Str("s")), Prop("a", t)>>),
                     Obj(<<Prop("length", Num(2)), Prop("width", t)>>)})

RECURSIVE SerializableTrees(_)
SerializableTrees(nesting) ==
    IF nesting = 0 THEN Innermost
    ELSE LET inner == SerializableTrees(nesting - 1)
         IN inner \cup UNION {Wrappings(t) : t \in inner}

InitSerialize ==
    /\ client = TheClient
    /\ pc = "serializing"
    /\ call \in {[via |-> "serialize", defaultMethod |-> "", args |-> <<tree>>] :
                    tree \in SerializableTrees(MaxNesting)}
    /\ promises = [p \in 1..MaxPromises |-> Pending]
    /\ firstFailure = None
    /\ inferred = Undef
    /\ config = Undef
    /\ issued = <<>>
    /\ bodies = <<>>
    /\ inflight = 0
    /\ authCalls = <<>>
    /\ contReturns = <<>>
    /\ pageConfig = Undef
    /\ result = Pending

\* ApiClient._serializeObjectToFormData(object): formData and path default to a new
\* FormData and '' (lines 389-394); the FormData is returned
Serialize ==
    /\ pc = "serializing"
    /\ result' = Fulfilled(Form(SerializeObjectToFormData(call.args[1], <<>>, "")))
    /\ pc' = "serialized"
    /\ UNCHANGED <<client, call, promises, firstFailure, inferred, config, issued,
                   bodies, inflight, authCalls, contReturns, pageConfig>>

NextSerialize == Serialize

SpecSerialize == InitSerialize /\ [][NextSerialize]_vars

\* The entries the bracket-path convention gives a tree: one per leaf, depth
\* first in input order; the key is the bare property name at the root, grows by
\* ['property'] for a property of a nested object and by [] for an array element
RECURSIVE BracketEntries(_, _, _)
RECURSIVE BracketEntriesOfItems(_, _)
RECURSIVE BracketEntriesOfProps(_, _, _)
BracketEntries(tree, key, atRoot) ==
    CASE tree.t = "undef" -> <<>>
      [] tree.t = "bool" -> <<Entry(key, Str(IF tree.b THEN "true" ELSE "false"))>>
      [] tree.t = "arr" ->
            IF tree.items = <<>> THEN <<Entry(key \o "[]", Str(""))>>
            ELSE BracketEntriesOfItems(tree.items, key \o "[]")
      [] tree.t = "obj" -> BracketEntriesOfProps(tree.props, key, atRoot)
      [] OTHER -> <<Entry(key, tree)>>

BracketEntriesOfItems(items, key) ==
    IF items = <<>> THEN <<>>
    ELSE BracketEntries(Head(items), key, FALSE)
            \o BracketEntriesOfItems(Tail(items), key)

BracketEntriesOfProps(props, key, atRoot) ==
    IF props = <<>> THEN <<>>
    ELSE BracketEntries(Head(props).v,
                        IF atRoot THEN Head(props).k
                        ELSE key \o "['" \o Head(props).k \o "']",
                        FALSE)
            \o BracketEntriesOfProps(Tail(props), key, atRoot)

\* The leaves of a tree: booleans, strings, numbers, and empty arrays
RECURSIVE LeafCount(_)
RECURSIVE LeafCountOfSeq(_)
LeafCount(tree) ==
    CASE tree.t = "undef" -> 0
      [] tree.t = "arr" -> IF tree.items = <<>> THEN 1 ELSE LeafCountOfSeq(tree.items)
      [] tree.t = "obj" ->
            LeafCountOfSeq([i \in 1..Len(tree.props) |-> tree.props[i].v])
      [] OTHER -> 1

LeafCountOfSeq(trees) ==
    IF trees = <<>> THEN 0 ELSE LeafCount(Head(trees)) + LeafCountOfSeq(Tail(trees))

\* C11: for every tree of plain objects, arrays, booleans and primitives the
\* serializer appends exactly one entry per leaf, in depth-first input order,
\* under the bracket-path key: the bare property name at the root, ['property']
\* appended for each nested object property and [] for each array element; an
\* empty array under key x yields the one entry x[] with an empty-string value,
\* and an undefined value yields no entry.
C11_OneEntryPerLeafUnderBracketPath ==
    pc = "serialized" =>
        /\ result.v.t = "form"
        /\ Len(result.v.entries) = LeafCount(call.args[1])
        /\ result.v.entries = BracketEntries(call.args[1], "", TRUE)

(***************************************************************************)
(* The URL builder on its own: SpecUrl draws a client configuration and    *)
(* URL-slug arguments, and builds the URL.                                 *)
(***************************************************************************)
\* Base paths: "/", "/api/", "/api", "/api/v1/", "/api/v1"
BasePaths == {<<"">>, <<"api", "">>, <<"api">>, <<"api", "v1", "">>, <<"api", "v1">>}
Ports == {"443", "8443"}

UrlClients ==
    {ApiClient(Obj(<<Prop("baseUrl", [t |-> "urlstring", protocol |-> "https:",
                                      hostname |-> "host", port |-> port,
                                      pathname |-> path])>>)) :
        port \in Ports, path \in BasePaths}
    \cup {ApiClient(Obj(<<Prop("hostname", Str("host")), Prop("port", Str(port)),
                          Prop("protocol", Str("http:")),
                          Prop("basePath", [t |-> "pathstring", segs |-> path])>>)) :
            port \in Ports, path \in BasePaths}

\* URL-slug arguments: strings, numbers, absent values, and an array of slugs
SlugArgs ==
    {Str("widgets"), Num(42), Str("42"), Undef, Null,
     Arr(<<Str("widgets"), Num(42)>>)}

InitUrl ==
    /\ client \in UrlClients
    /\ pc = "building"
    /\ call \in {[via |-> "buildUrl", defaultMethod |-> "", args |-> slugs] :
                    slugs \in Seqs(SlugArgs, MaxSegments)}
    /\ promises = [p \in 1..MaxPromises |-> Pending]
    /\ firstFailure = None
    /\ inferred = Undef
    /\ config = Undef
    /\ issued = <<>>
    /\ bodies = <<>>
    /\ inflight = 0
    /\ authCalls = <<>>
    /\ contReturns = <<>>
    /\ pageConfig = Undef
    /\ result = Pending

\* apiClient._buildUrl(...urlSlugs): lines 120-126
Build ==
    /\ pc = "building"
    /\ result' = Fulfilled(BuildUrl(client, call.args))
    /\ pc' = "built"
    /\ UNCHANGED <<client, call, promises, firstFailure, inferred, config, issued,
                   bodies, inflight, authCalls, contReturns, pageConfig>>

NextUrl == Build

SpecUrl == InitUrl /\ [][NextUrl]_vars

IsPresent(v) == ~isNil(v)
PresentSegments == SelectSeq(flattenDeep(call.args), IsPresent)
WithoutTrailingSlash(path) ==
    IF path # <<>> /\ path[Len(path)] = "" THEN Front(path) ELSE path

\* The configured base path followed by the present segments
PathWithSegments ==
    IF PresentSegments = <<>> THEN client.basePath
    ELSE WithoutTrailingSlash(client.basePath)
            \o [i \in 1..Len(PresentSegments) |-> SegmentText(PresentSegments[i])]

\* C12: for every configured base path and every list of present path segments
\* the path of the built URL is the configured base path followed by the segments
\* joined with '/': the base path is never replaced or truncated, and absent
\* segments add no empty path component.
C12_BasePathKeptAndSegmentsAppended ==
    pc = "built" =>
        result.v = Str(Href(client.protocol, client.hostname,
                            NormalPort(client.protocol, client.port),
                            PathWithSegments))

(***************************************************************************)
(* The authenticator on its own: SpecAuth draws a client and a request     *)
(* config, and authenticates the config.                                   *)
(***************************************************************************)
\* Clients as constructed from ClientParams, and clients given a credentials
\* object that carries several credential forms at once
AuthClients ==
    {ApiClient(params) : params \in ClientParams}
    \cup {ApiClient(Obj(<<Prop("hostname", Str("host")),
                          Prop("basePath", [t |-> "pathstring", segs |-> <<"api", "">>]),
                          Prop("credentials", Obj(creds))>>)) :
            creds \in {<<Prop("token", Str("t1")), Prop("username", Str("u")),
                         Prop("password", Str("pw")),
                         Prop("authHeaders", Obj(<<Prop("X-Api-Key", Str("k"))>>))>>,
                       <<Prop("username", Str("u")), Prop("password", Str("pw")),
                         Prop("authHeaders", Obj(<<Prop("X-Api-Key", Str("k"))>>))>>}}

AuthConfigs ==
    { Undef,
      EmptyObj,
      Obj(<<Prop("url", Str("https://host/api/items")), Prop("method", Str("get"))>>),
      Obj(<<Prop("url", Str("https://host/api/items")),
            Prop("headers", Obj(<<Prop("Accept", Str("application/json"))>>))>>),
      Obj(<<Prop("headers", Obj(<<Prop("Authorization", Str("Basic old")),
                                  Prop("X-Api-Key", Str("mine"))>>)),
            Prop("url", Str("https://host/api/items"))>>),
      Obj(<<Prop("url", Str("https://host/api/items")),
            Prop("auth", Obj(<<Prop("username", Str("x")), Prop("password", Str("y"))>>)),
            Prop("headers", Obj(<<Prop("authorization", Str("old"))>>))>>),
      Obj(<<Prop("headers", Null), Prop("data", Obj(<<Prop("d", Num(1))>>))>>) }

InitAuth ==
    /\ client \in AuthClients
    /\ pc = "authenticating"
    /\ call = [via |-> "authenticate", defaultMethod |-> "", args |-> <<>>]
    /\ promises = [p \in 1..MaxPromises |-> Pending]
    /\ firstFailure = None
    /\ inferred = Undef
    /\ config \in AuthConfigs
    /\ issued = <<>>
    /\ bodies = <<>>
    /\ inflight = 0
    /\ authCalls = <<>>
    /\ contReturns = <<>>
    /\ pageConfig = Undef
    /\ result = Pending

\* apiClient._authenticate(config): lines 134-160.  config stays as it was on
\* entry, result is the config returned
AuthenticateConfig ==
    /\ pc = "authenticating"
    /\ result' = Fulfilled(Authenticate(client, config))
    /\ authCalls' = IF UsesAuthCallback(client) THEN <<config>> ELSE <<>>
    /\ pc' = "authenticated"
    /\ UNCHANGED <<client, call, promises, firstFailure, inferred, config, issued,
                   bodies, inflight, contReturns, pageConfig>>

NextAuth == AuthenticateConfig

SpecAuth == InitAuth /\ [][NextAuth]_vars

ConfigBefore == IF isNil(config) THEN EmptyObj ELSE config
HeadersOf(cfg) == get(cfg, "headers")

\* C14: with token credentials and no auth callback, _authenticate sets the
\* config's Authorization header to 'Bearer <token>' and leaves every other part
\* of the config unchanged: 'auth' is not set and no other header is added,
\* removed or changed, even when username/password or authHeaders were also
\* supplied.
C14_TokenSetsOnlyBearerHeader ==
    (pc = "authenticated" /\ has(client.credentials, "token")
        /\ client.authCallback = Undef) =>
        /\ get(HeadersOf(result.v), "Authorization")
              = Str("Bearer " \o get(client.credentials, "token").s)
        /\ Keys(result.v) = Keys(ConfigBefore) \cup {"headers"}
        /\ \A k \in Keys(result.v) \ {"headers"} :
              get(result.v, k) = get(ConfigBefore, k)
        /\ Keys(HeadersOf(result.v))
              = Keys(HeadersOf(ConfigBefore)) \cup {"Authorization"}
        /\ \A h \in Keys(HeadersOf(result.v)) \ {"Authorization"} :
              get(HeadersOf(result.v), h) = get(HeadersOf(ConfigBefore), h)
        /\ authCalls = <<>>

C14_Witness ==
    /\ pc = "authenticated"
    /\ client.authCallback = Undef
    /\ has(client.credentials, "token")
    /\ has(client.credentials, "username")
    /\ has(client.credentials, "authHeaders")
    /\ get(HeadersOf(config), "Authorization") = Str("Basic old")
    /\ get(HeadersOf(result.v), "Authorization") = Str("Bearer t1")
    /\ get(HeadersOf(result.v), "X-Api-Key") = Str("mine")
    /\ ~has(result.v, "auth")

(***************************************************************************)
(* Pagination over a finite chain of pages: in SpecPages the transport     *)
(* answers every request, with a body determined by the config sent, and   *)
(* the continuation is a function of the response and the config it is     *)
(* given.  The arrival of a response and the then-callback that handles it *)
(* are separate steps.  The histories issued, bodies and contReturns keep  *)
(* as many entries as a call that follows the chain needs; past that, the  *)
(* newest entry replaces the last one.                                     *)
(***************************************************************************)
\* A continuation that follows the pages up to lastPage: given the body of page n
\* and the config that was sent, it returns that config with params.page = n + 1,
\* and undefined when n is the last page
PagedContinuation(lastPage) ==
    [t |-> "function", name |-> "nextPage", ownProps |-> 0, lastPage |-> lastPage]

PagedContinuationResult(fn, responseData, cfg) ==
    IF responseData.n < fn.lastPage
    THEN set(cfg, "params", Obj(<<Prop("page", Num(responseData.n + 1))>>))
    ELSE Undef

\* The transport, as a function of the config sent: the body of page params.page,
\* of page 1 when the config names no page
ResponseFor(cfg) ==
    LET page == get(get(cfg, "params"), "page")
    IN IF page.t = "num" THEN page ELSE Num(1)

PagedCalls ==
    {VerbCall("get", <<Str("items"), Undef,
                       Obj(<<Prop("paginationCallback", PagedContinuation(lastPage))>>)>>) :
        lastPage \in 1..(MaxPages + 1)}

HistoryLength == MaxPages + 1
Remember(history, entry) ==
    IF Len(history) < HistoryLength THEN Append(history, entry)
    ELSE [history EXCEPT ![HistoryLength] = entry]

InitPages ==
    /\ client \in {ApiClient(params) : params \in ClientParams}
    /\ pc = "resolving"
    /\ call \in PagedCalls
    /\ promises = [p \in 1..MaxPromises |-> Pending]
    /\ firstFailure = None
    /\ inferred = Undef
    /\ config = Undef
    /\ issued = <<>>
    /\ bodies = <<>>
    /\ inflight = 0
    /\ authCalls = <<>>
    /\ contReturns = <<>>
    /\ pageConfig = Undef
    /\ result = Pending

\* The transport answers the request in flight: the promise of axios.request
\* (line 257 or 267) fulfils
TransportAnswers ==
    /\ pc \in {"awaiting", "paging"}
    /\ inflight = 1
    /\ inflight' = 0
    /\ bodies' = Remember(bodies, Answer(Len(issued), ResponseFor(issued[Len(issued)])))
    /\ UNCHANGED <<client, call, promises, firstFailure, inferred, config, issued,
                   authCalls, contReturns, pageConfig, pc, result>>

\* The then-callback of the first request runs: lines 258-288
FirstResponseHandled ==
    /\ pc = "awaiting"
    /\ inflight = 0
    /\ LET responseData == bodies[Len(bodies)].body
           paginationCallback == get(issued[1], "paginationCallback")
           nextConfig == PagedContinuationResult(paginationCallback, responseData,
                                                 issued[1])
       IN /\ contReturns' = Remember(contReturns, nextConfig)
          /\ IF isNil(nextConfig)
             THEN /\ result' = Fulfilled(ResponseDataArray(bodies))
                  /\ pc' = "done"
                  /\ UNCHANGED <<issued, pageConfig, inflight>>
             ELSE /\ issued' = Remember(issued, nextConfig)
                  /\ pageConfig' = nextConfig
                  /\ inflight' = 1
                  /\ pc' = "paging"
                  /\ UNCHANGED result
    /\ UNCHANGED <<client, call, promises, firstFailure, inferred, config, bodies,
                   authCalls>>

\* The then-callback of a follow-up request runs: lines 268-275, then 281-283
PageResponseHandled ==
    /\ pc = "paging"
    /\ inflight = 0
    /\ LET paginationResponseData == bodies[Len(bodies)].body
           paginationCallback == get(issued[1], "paginationCallback")
           nextConfig == PagedContinuationResult(paginationCallback,
                                                 paginationResponseData, pageConfig)
       IN /\ contReturns' = Remember(contReturns, nextConfig)
          /\ IF ~isNil(nextConfig)
             THEN /\ issued' = Remember(issued, FollowUpConfig(pageConfig, nextConfig))
                  /\ pageConfig' = FollowUpConfig(pageConfig, nextConfig)
                  /\ inflight' = 1
                  /\ UNCHANGED <<pc, result>>
             ELSE /\ result' = Fulfilled(ResponseDataArray(bodies))
                  /\ pc' = "done"
                  /\ UNCHANGED <<issued, pageConfig, inflight>>
    /\ UNCHANGED <<client, call, promises, firstFailure, inferred, config, bodies,
                   authCalls>>

NextPages ==
    \/ Dispatch
    \/ TransportAnswers
    \/ FirstResponseHandled
    \/ PageResponseHandled

\* The transport answers every request, and a then-callback runs once its promise
\* has fulfilled
SpecPages ==
    /\ InitPages
    /\ [][NextPages]_vars
    /\ WF_vars(TransportAnswers)
    /\ WF_vars(FirstResponseHandled)
    /\ WF_vars(PageResponseHandled)

\* C15: a paginated call eventually completes whenever the chain of pages is
\* finite: when each response is determined by the config sent, following the
\* configs the continuation returns reaches an absent result after finitely many
\* pages, and the transport answers every request, the executor eventually
\* returns its result sequence.
C15_PaginatedCallEventuallyCompletes ==
    Paginated ~> (pc = "done" /\ result.st = "fulfilled" /\ result.v.t = "arr")

====
